---- MODULE Spec2Model ----
(***************************************************************************)
(* Model of molecule/lint/yamllint.py: the Yamllint lint plugin.           *)
(*                                                                         *)
(* The plugin object holds _files (computed once by __init__ through       *)
(* _get_files) and _yamllint_command (None until bake()).  bake() builds   *)
(* an sh command from the merged options, the file list and the merged     *)
(* environment; execute() skips when the plugin is disabled, bakes when    *)
(* nothing is baked, runs the command and maps sh.ErrorReturnCode onto     *)
(* util.sysexit(exit_code).                                                *)
(*                                                                         *)
(* Two specifications:                                                     *)
(*   Spec           the bake/execute lifecycle of one constructed plugin,  *)
(*                  with the configuration, the process environment, the   *)
(*                  project tree and the executable changing around it;    *)
(*   SpecDiscovery  __init__/_get_files applied to bounded project trees.  *)
(***************************************************************************)
EXTENDS Integers, Sequences, FiniteSets, TLC

VARIABLES
    tree,               \* files on disk under config.project_directory
    verifier_directory, \* config.verifier.directory, a path (its components)
    root_exists,        \* config.project_directory exists on disk
    constructed,        \* __init__ has run
    files,              \* self._files
    discoveries,        \* number of _get_files runs so far
    yamllint_command,   \* self._yamllint_command (None or a baked command)
    enabled,            \* config lint 'enabled'
    lint_options,       \* config lint 'options'
    lint_env,           \* config lint 'env'
    os_environ,         \* os.environ of the host process
    installed,          \* the yamllint executable resolves on the path
    next_id,            \* identity of the next command object sh builds
    calls,              \* number of bake()/execute() calls made so far
    last,               \* what the most recent bake()/execute() call did
    launched,           \* identities of the commands run so far, in order
    baked_from          \* what the held command was baked from

vars == <<tree, verifier_directory, root_exists, constructed, files, discoveries,
          yamllint_command, enabled, lint_options, lint_env, os_environ,
          installed, next_id, calls, last, launched, baked_from>>

plugin_vars == <<yamllint_command, next_id, calls, last, launched, baked_from>>
config_vars == <<enabled, lint_options, lint_env, os_environ, installed>>

----------------------------------------------------------------------------
(* Bounds *)

MaxDepth == 2       \* directory nesting below the project root
MaxFiles == 2       \* files in a project tree
MaxCalls == 3       \* bake()/execute() calls on one plugin
MaxExitCode == 2    \* exit codes of the external process are 0..MaxExitCode

----------------------------------------------------------------------------
(* Project trees *)

\* File names are character sequences, so that glob matching is computed.
a_yml  == <<"a", ".", "y", "m", "l">>
b_yaml == <<"b", ".", "y", "a", "m", "l">>
c_txt  == <<"c", ".", "t", "x", "t">>

\* the order in which a directory listing returns names
FileOrder == <<a_yml, b_yaml, c_txt>>
DirOrder  == <<".git", ".tox", ".vagrant", ".venv", "molecule", "tests">>

FileNames == {FileOrder[i] : i \in 1..Len(FileOrder)}
DirNames  == {DirOrder[i] : i \in 1..Len(DirOrder)}

\* names used below the first directory level (keeps the trees enumerable)
DeepDirNames == {".git", "molecule"}

VerifierDirectories == {<<"molecule", "default", "tests">>, <<"molecule">>}

Directories ==
    UNION {{d \in [1..n -> DirNames] :
              \A i \in 2..n : d[i] \in DeepDirNames} : n \in 0..MaxDepth}

\* a file on disk: the directory it is in (components below the root) + name
Paths == [dir : Directories, name : FileNames]

IsPrefix(p, q) == Len(p) <= Len(q) /\ SubSeq(q, 1, Len(p)) = p

----------------------------------------------------------------------------
(* util.os_walk and fnmatch *)

RECURSIVE fnmatch(_, _)
fnmatch(name, pat) ==
    IF pat = <<>> THEN name = <<>>
    ELSE IF Head(pat) = "*"
         THEN fnmatch(name, Tail(pat))
              \/ (name # <<>> /\ fnmatch(Tail(name), pat))
         ELSE name # <<>> /\ Head(name) = Head(pat)
              /\ fnmatch(Tail(name), Tail(pat))

\* os.walk's (dirs, files) of one directory, in listing order
listdir_files(t, root) ==
    SelectSeq(FileOrder, LAMBDA n : [dir |-> root, name |-> n] \in t)
listdir_dirs(t, root) ==
    SelectSeq(DirOrder,
              LAMBDA d : \E f \in t : IsPrefix(root \o <<d>>, f.dir))

RECURSIVE os_walk(_, _, _, _)
RECURSIVE os_walk_dirs(_, _, _, _, _)
\* topdown walk: the matching files of root, then each kept sub-directory
os_walk(t, root, pattern, excl) ==
    LET dirs  == SelectSeq(listdir_dirs(t, root), LAMBDA d : d \notin excl)
        names == SelectSeq(listdir_files(t, root),
                           LAMBDA n : fnmatch(n, pattern))
        here  == [i \in 1..Len(names) |-> [dir |-> root, name |-> names[i]]]
    IN  here \o os_walk_dirs(t, root, dirs, pattern, excl)
os_walk_dirs(t, root, dirs, pattern, excl) ==
    IF dirs = <<>> THEN <<>>
    ELSE os_walk(t, root \o <<Head(dirs)>>, pattern, excl)
         \o os_walk_dirs(t, root, Tail(dirs), pattern, excl)

----------------------------------------------------------------------------
(* Yamllint._get_files *)

\* os.path.basename of a path given by its components
basename(path) == IF path = <<>> THEN "" ELSE path[Len(path)]

excludes_verifier_dirname(vdir) ==
    {".git", ".tox", ".vagrant", ".venv",
     IF vdir = <<>> THEN "" ELSE Head(vdir)}

excludes(vdir) ==
    {".git", ".tox", ".vagrant", ".venv", basename(vdir)}

star_yml  == <<"*", ".", "y", "m", "l">>
star_yaml == <<"*", ".", "y", "a", "m", "l">>

\* util.os_walk(project_directory, pattern, excludes): a walk of a directory
\* that does not exist yields nothing
util_os_walk(t, pattern, excl) ==
    IF root_exists THEN os_walk(t, <<>>, pattern, excl) ELSE <<>>

generators_yaml_first(t, vdir) ==
    << util_os_walk(t, star_yaml, excludes(vdir)),
       util_os_walk(t, star_yml, excludes(vdir)) >>

generators(t, vdir) ==
    << util_os_walk(t, star_yml, excludes(vdir)),
       util_os_walk(t, star_yaml, excludes(vdir)) >>

\* [f for g in generators for f in g]
get_files(t, vdir) ==
    LET g == generators(t, vdir) IN g[1] \o g[2]

----------------------------------------------------------------------------
(* Configuration values *)

\* an ordered mapping is a sequence of entries with distinct keys
Opt(k, kind, v) == [key |-> k, kind |-> kind, val |-> v]

LintOptions ==
    { <<>>,
      << Opt("s", "bool", "False"), Opt("config-file", "str", "x") >>,
      << Opt("config-data", "dict", "ignore: p") >> }

\* an environment is a set of <<name, value>> pairs with distinct names
LintEnvs   == { {}, {<<"FOO", "bar">>} }
OsEnvirons == { {<<"PATH", "/bin">>},
                {<<"PATH", "/bin">>, <<"FOO", "os">>} }

\* self._config.env, the orchestrator's own variables
config_env == {<<"MOLECULE_FILE", "molecule.yml">>}

\* project trees the lifecycle is run on
LifecycleTrees ==
    { {[dir |-> <<>>, name |-> a_yml]},
      {[dir |-> <<>>, name |-> a_yml], [dir |-> <<"molecule">>, name |-> b_yaml]} }

----------------------------------------------------------------------------
(* util.merge_dicts, Base.options, Base.env *)

Keys(m) == {m[i].key : i \in 1..Len(m)}

\* a's entries with b's values where b has the key, then b's new entries
merge_dicts(a, b) ==
    [i \in 1..Len(a) |->
        IF a[i].key \in Keys(b)
        THEN CHOOSE e \in {b[j] : j \in 1..Len(b)} : e.key = a[i].key
        ELSE a[i]]
    \o SelectSeq(b, LAMBDA e : e.key \notin Keys(a))

merge_env(a, b) == {p \in a : \A q \in b : q[1] # p[1]} \cup b

default_options_empty == <<>>

default_options == << Opt("s", "bool", "True") >>

options == merge_dicts(default_options, lint_options)

\* os.environ.copy() merged with config.env: os.environ itself is not written
default_env == merge_env(os_environ, config_env)

env == merge_env(default_env, lint_env)

\* os.environ after self.env has been computed: the merges write the copy
\* that os.environ.copy() made
environ_written_in_place == merge_env(merge_env(os_environ, config_env), lint_env)

environ_after_env == os_environ

----------------------------------------------------------------------------
(* sh: compiling bake()'s positional arguments into an argument list *)

NoFile == [dir |-> <<>>, name |-> <<>>]
Arg(kind, k, v, f) == [kind |-> kind, key |-> k, val |-> v, file |-> f]

\* a dict argument: True gives a bare flag, False gives nothing, any other
\* value gives the key with its value
RECURSIVE option_args(_)
option_args(opts) ==
    IF opts = <<>> THEN <<>>
    ELSE LET e == Head(opts) IN
         (IF e.kind = "bool"
          THEN IF e.val = "True" THEN <<Arg("flag", e.key, "", NoFile)>>
               ELSE <<>>
          ELSE <<Arg("option", e.key, e.val, NoFile)>>)
         \o option_args(Tail(opts))

\* a list argument: one argument per element, in order
file_args(fs) == [i \in 1..Len(fs) |-> Arg("file", "", "", fs[i])]

----------------------------------------------------------------------------
(* Commands and what a call did *)

None == [id |-> 0, args |-> <<>>, env |-> {}]

Ev(name, code, id) == [ev |-> name, code |-> code, id |-> id]

NoCall == [op |-> "none", enabled |-> TRUE, exit |-> -1, ran |-> 0,
           events |-> <<>>, result |-> "none"]

Count(evs, name) == Cardinality({i \in 1..Len(evs) : evs[i].ev = name})
Index(evs, name) ==
    IF Count(evs, name) = 0 THEN 0
    ELSE CHOOSE i \in 1..Len(evs) :
            evs[i].ev = name /\ \A j \in 1..(i - 1) : evs[j].ev # name

\* everything bake() reads
Inputs == [options |-> lint_options, env |-> lint_env, environ |-> os_environ,
           files |-> files]

NoInputs == [options |-> <<>>, env |-> {}, environ |-> {}, files |-> <<>>]

----------------------------------------------------------------------------
(* Yamllint.bake *)

\* the command object sh.yamllint.bake(options, files, _env=env, ...) returns
baked_accumulating ==
    [id   |-> next_id,
     args |-> yamllint_command.args \o option_args(options) \o file_args(files),
     env  |-> env]

baked_rediscovering ==
    [id   |-> next_id,
     args |-> option_args(options)
              \o file_args(get_files(tree, verifier_directory)),
     env  |-> env]

baked_memoized ==
    IF yamllint_command # None THEN yamllint_command
    ELSE [id   |-> next_id,
          args |-> option_args(options) \o file_args(files),
          env  |-> env]

baked_files_first ==
    [id   |-> next_id,
     args |-> file_args(files) \o option_args(options),
     env  |-> env]

baked ==
    [id   |-> next_id,
     args |-> option_args(options) \o file_args(files),
     env  |-> env]

\* what a bake() call does besides assigning self._yamllint_command
bake_events_logged(id) == <<Ev("bake", -1, id), Ev("info", -1, 0)>>

bake_events(id) == <<Ev("bake", -1, id)>>

\* resolving sh.yamllint raises sh.CommandNotFound when nothing resolves
bake ==
    /\ constructed
    /\ calls < MaxCalls
    /\ calls' = calls + 1
    /\ IF installed
       THEN /\ yamllint_command' = baked
            /\ next_id' = next_id + 1
            /\ baked_from' = Inputs
            /\ os_environ' = environ_after_env
            /\ last' = [NoCall EXCEPT !.op = "bake", !.enabled = enabled,
                           !.events = bake_events(next_id),
                           !.result = "return"]
       ELSE /\ UNCHANGED <<yamllint_command, next_id, baked_from, os_environ>>
            /\ last' = [NoCall EXCEPT !.op = "bake", !.enabled = enabled,
                           !.events = bake_events(0),
                           !.result = "CommandNotFound"]
    /\ UNCHANGED <<tree, verifier_directory, root_exists, constructed, files,
                   discoveries, launched>>
    /\ UNCHANGED <<enabled, lint_options, lint_env, installed>>

----------------------------------------------------------------------------
(* Yamllint.execute *)

\* `if not self.enabled`
skips_never == FALSE

skips == ~enabled

\* `if self._yamllint_command is None`
needs_bake_always == TRUE

needs_bake_stale == yamllint_command = None \/ baked_from # Inputs

needs_bake == yamllint_command = None

\* LOG.info(msg), then util.run_command(self._yamllint_command, ...)
run_events_info_last(id) == <<Ev("run", -1, id), Ev("info", -1, 0)>>

run_events(id) == <<Ev("info", -1, 0), Ev("run", -1, id)>>

\* self._yamllint_command once run_command was called on it: still held
held_after_run_consumed(cmd) == None

held_after_run(cmd) == cmd

Handled(evs, res) == [events |-> evs, result |-> res]

\* the try/except around util.run_command: `code` is the exit code of the
\* process when it started (`started`); a command that cannot be started
\* raises an exception that is no sh.ErrorReturnCode
try_except_generic_code(code, started) ==
    IF ~started THEN Handled(<<>>, "ForkException")
    ELSE IF code = 0 THEN Handled(<<Ev("success", -1, 0)>>, "return")
    ELSE Handled(<<Ev("sysexit", 1, 0)>>, "SystemExit")

try_except_success_first(code, started) ==
    IF ~started THEN Handled(<<>>, "ForkException")
    ELSE IF code = 0 THEN Handled(<<Ev("success", -1, 0)>>, "return")
    ELSE Handled(<<Ev("success", -1, 0), Ev("sysexit", code, 0)>>,
                 "SystemExit")

try_except_catch_all(code, started) ==
    IF ~started THEN Handled(<<Ev("sysexit", 1, 0)>>, "SystemExit")
    ELSE IF code = 0 THEN Handled(<<Ev("success", -1, 0)>>, "return")
    ELSE Handled(<<Ev("sysexit", code, 0)>>, "SystemExit")

try_except(code, started) ==
    IF ~started THEN Handled(<<>>, "ForkException")
    ELSE IF code = 0 THEN Handled(<<Ev("success", -1, 0)>>, "return")
    ELSE Handled(<<Ev("sysexit", code, 0)>>, "SystemExit")

execute ==
    /\ constructed
    /\ calls < MaxCalls
    /\ calls' = calls + 1
    /\ \E code \in 0..MaxExitCode :
        IF skips
        THEN /\ last' = [NoCall EXCEPT !.op = "execute", !.enabled = enabled,
                            !.events = <<Ev("warn", -1, 0)>>,
                            !.result = "return"]
             /\ UNCHANGED <<yamllint_command, next_id, launched, baked_from,
                            os_environ>>
        ELSE IF needs_bake /\ ~installed
        THEN /\ last' = [NoCall EXCEPT !.op = "execute", !.enabled = enabled,
                            !.events = bake_events(0),
                            !.result = "CommandNotFound"]
             /\ UNCHANGED <<yamllint_command, next_id, launched, baked_from,
                            os_environ>>
        ELSE LET cmd == IF needs_bake THEN baked ELSE yamllint_command
                 pre == (IF needs_bake THEN bake_events(cmd.id) ELSE <<>>)
                        \o run_events(cmd.id)
                 h   == try_except(code, installed)
             IN  /\ yamllint_command' = held_after_run(cmd)
                 /\ next_id' = IF needs_bake THEN next_id + 1 ELSE next_id
                 /\ baked_from' = IF needs_bake THEN Inputs ELSE baked_from
                 /\ os_environ' = IF needs_bake THEN environ_after_env
                                  ELSE os_environ
                 /\ launched' = IF installed THEN Append(launched, cmd.id)
                                ELSE launched
                 /\ last' = [op |-> "execute", enabled |-> enabled,
                             exit |-> IF installed THEN code ELSE -1,
                             ran |-> cmd.id,
                             events |-> pre \o h.events,
                             result |-> h.result]
    /\ UNCHANGED <<tree, verifier_directory, root_exists, constructed, files,
                   discoveries>>
    /\ UNCHANGED <<enabled, lint_options, lint_env, installed>>

----------------------------------------------------------------------------
(* The surroundings of the plugin *)

set_enabled ==
    /\ constructed
    /\ enabled' = ~enabled
    /\ UNCHANGED <<tree, verifier_directory, root_exists, constructed, files, discoveries,
                   lint_options, lint_env, os_environ, installed>>
    /\ UNCHANGED plugin_vars

set_lint_options ==
    /\ constructed
    /\ \E o \in LintOptions \ {lint_options} : lint_options' = o
    /\ UNCHANGED <<tree, verifier_directory, root_exists, constructed, files, discoveries,
                   enabled, lint_env, os_environ, installed>>
    /\ UNCHANGED plugin_vars

set_lint_env ==
    /\ constructed
    /\ \E e \in LintEnvs \ {lint_env} : lint_env' = e
    /\ UNCHANGED <<tree, verifier_directory, root_exists, constructed, files, discoveries,
                   enabled, lint_options, os_environ, installed>>
    /\ UNCHANGED plugin_vars

set_os_environ ==
    /\ constructed
    /\ \E e \in OsEnvirons \ {os_environ} : os_environ' = e
    /\ UNCHANGED <<tree, verifier_directory, root_exists, constructed, files, discoveries,
                   enabled, lint_options, lint_env, installed>>
    /\ UNCHANGED plugin_vars

set_installed ==
    /\ constructed
    /\ installed' = ~installed
    /\ UNCHANGED <<tree, verifier_directory, root_exists, constructed, files, discoveries,
                   enabled, lint_options, lint_env, os_environ>>
    /\ UNCHANGED plugin_vars

tree_changes ==
    /\ constructed
    /\ \E t \in LifecycleTrees \ {tree} : tree' = t
    /\ UNCHANGED <<verifier_directory, root_exists, constructed, files, discoveries>>
    /\ UNCHANGED config_vars
    /\ UNCHANGED plugin_vars

----------------------------------------------------------------------------
(* Yamllint.__init__ *)

Yamllint_init ==
    /\ ~constructed
    /\ constructed' = TRUE
    /\ yamllint_command' = None
    /\ files' = get_files(tree, verifier_directory)
    /\ discoveries' = discoveries + 1
    /\ UNCHANGED <<tree, verifier_directory, root_exists, next_id, calls, last, launched,
                   baked_from>>
    /\ UNCHANGED config_vars

\* the project tree before the plugin is constructed
tree_add_file ==
    /\ ~constructed
    /\ root_exists
    /\ Cardinality(tree) < MaxFiles
    /\ \E p \in Paths \ tree : tree' = tree \cup {p}
    /\ UNCHANGED <<verifier_directory, root_exists, constructed, files, discoveries>>
    /\ UNCHANGED config_vars
    /\ UNCHANGED plugin_vars

----------------------------------------------------------------------------
(* Specifications *)

\* a plugin constructed on one of the lifecycle trees
Init ==
    /\ tree \in LifecycleTrees
    /\ verifier_directory = <<"molecule", "default", "tests">>
    /\ root_exists = TRUE
    /\ constructed = TRUE
    /\ files = get_files(tree, verifier_directory)
    /\ discoveries = 1
    /\ yamllint_command = None
    /\ enabled \in BOOLEAN
    /\ lint_options \in LintOptions
    /\ lint_env \in LintEnvs
    /\ os_environ \in OsEnvirons
    /\ installed \in BOOLEAN
    /\ next_id = 1
    /\ calls = 0
    /\ last = NoCall
    /\ launched = <<>>
    /\ baked_from = NoInputs

Next ==
    \/ bake
    \/ execute
    \/ set_enabled
    \/ set_lint_options
    \/ set_lint_env
    \/ set_os_environ
    \/ set_installed
    \/ tree_changes

Spec == Init /\ [][Next]_vars

\* a project tree being laid out, then a plugin constructed on it
InitDiscovery ==
    /\ tree = {}
    /\ verifier_directory \in VerifierDirectories
    /\ root_exists \in BOOLEAN
    /\ constructed = FALSE
    /\ files = <<>>
    /\ discoveries = 0
    /\ yamllint_command = None
    /\ enabled = TRUE
    /\ lint_options = <<>>
    /\ lint_env = {}
    /\ os_environ = {<<"PATH", "/bin">>}
    /\ installed = TRUE
    /\ next_id = 1
    /\ calls = 0
    /\ last = NoCall
    /\ launched = <<>>
    /\ baked_from = NoInputs

NextDiscovery ==
    \/ tree_add_file
    \/ Yamllint_init

SpecDiscovery == InitDiscovery /\ [][NextDiscovery]_vars

----------------------------------------------------------------------------
(* Properties *)

BakeStep    == calls' = calls + 1 /\ last'.op = "bake"
ExecuteStep == calls' = calls + 1 /\ last'.op = "execute"

Codes(evs, name) == {evs[i].code : i \in {j \in 1..Len(evs) : evs[j].ev = name}}
FileArgs(cmd) == SelectSeq(cmd.args, LAMBDA a : a.kind = "file")

\* C1: an enabled execute() whose external process exits with a non-zero
\* code c calls util.sysexit exactly once, with exactly c.
C1_ExitCodeFidelity ==
    (last.op = "execute" /\ last.enabled /\ last.exit > 0) =>
        /\ Count(last.events, "sysexit") = 1
        /\ Codes(last.events, "sysexit") = {last.exit}
        /\ last.result = "SystemExit"

C1_Witness ==
    /\ last.op = "execute" /\ last.enabled /\ last.exit = 2
    /\ Codes(last.events, "sysexit") = {2}

\* C2: an enabled execute() whose process exits 0 logs the success notice and
\* makes no termination call; an execute() whose process exits non-zero never
\* logs the success notice.
C2_SuccessOnlyOnZero ==
    /\ (last.op = "execute" /\ last.enabled /\ last.exit = 0) =>
          /\ Count(last.events, "success") = 1
          /\ Count(last.events, "sysexit") = 0
          /\ last.result = "return"
    /\ (last.op = "execute" /\ last.exit > 0) =>
          Count(last.events, "success") = 0

C2_Witness ==
    /\ last.op = "execute" /\ last.enabled /\ last.exit = 0
    /\ last.events[Len(last.events)].ev = "success"

\* C3: with enabled = false every execute() call, whatever is held and
\* whatever was called before, only logs the skip notice and returns: no
\* bake, no process run, no termination call, no file discovery.
C3_DisabledShortCircuit ==
    /\ [](  (last.op = "execute" /\ ~last.enabled) =>
              /\ last.events = <<Ev("warn", -1, 0)>>
              /\ last.result = "return"
              /\ last.ran = 0 /\ last.exit = -1
              /\ discoveries = 1 )
    /\ [][ (ExecuteStep /\ ~enabled) =>
              /\ launched' = launched
              /\ discoveries' = discoveries
              /\ files' = files ]_vars

C3_Witness ==
    /\ last.op = "execute" /\ ~last.enabled
    /\ yamllint_command # None /\ launched # <<>>
    /\ last.events = <<Ev("warn", -1, 0)>>

\* C4: an enabled execute() calls bake() itself exactly when nothing is held,
\* and before it runs anything; what it runs is the held command, never None;
\* it runs one whether or not bake() was called before (unless the implicit
\* bake() itself raised).
C4_ImplicitBake ==
    [][ (ExecuteStep /\ enabled) =>
          LET evs == last'.events IN
          /\ Count(evs, "bake") = (IF yamllint_command = None THEN 1 ELSE 0)
          /\ Count(evs, "run") <= 1
          /\ (Count(evs, "run") = 1) = (last'.result # "CommandNotFound")
          /\ Count(evs, "run") = 1 =>
                /\ yamllint_command' # None
                /\ last'.ran = yamllint_command'.id
                /\ Count(evs, "bake") = 1 =>
                      Index(evs, "bake") < Index(evs, "run") ]_vars

C4_Witness ==
    /\ last.op = "execute" /\ last.enabled
    /\ Count(last.events, "bake") = 0 /\ Count(last.events, "run") = 1
    /\ launched = <<1, 2>>

\* C5: a bake() made while the options, the env overrides, the process
\* environment and the file list are what the held command was baked from
\* yields a command with the same argument list and the same environment.
C5_IdempotentBake ==
    [][ (BakeStep /\ last'.result = "return" /\ yamllint_command # None
         /\ baked_from = Inputs) =>
          /\ yamllint_command'.args = yamllint_command.args
          /\ yamllint_command'.env = yamllint_command.env ]_vars

C5_Witness ==
    /\ last.op = "bake" /\ last.result = "return"
    /\ yamllint_command.id = 2 /\ calls = 2
    /\ yamllint_command.args # <<>>
    /\ baked_from = Inputs

\* C6 as stated: no baked command is run by more than one execute() call.
C6_ConsumedOnce ==
    \A i, j \in 1..Len(launched) : launched[i] = launched[j] => i = j

\* C6 as amended: an execute() call runs the command it holds at most once
\* and keeps holding it, so a later execute() runs the same command again
\* until bake() replaces it.
C6_RunOncePerCall ==
    [][ ExecuteStep =>
          /\ Len(launched') <= Len(launched) + 1
          /\ Count(last'.events, "run") <= 1
          /\ launched' # launched =>
                launched' = Append(launched, yamllint_command'.id)
          /\ yamllint_command # None => yamllint_command' = yamllint_command
        ]_vars

C6_Witness ==
    /\ last.op = "execute" /\ Len(launched) = 2
    /\ launched[1] = launched[2]

\* C7: after a bake() the held command is a new one built from the options
\* and environment as they are at that call and from the constructor-time
\* file list; an execute() runs the most recently baked command.
C7_RebakeReplaces ==
    /\ [][ (BakeStep /\ last'.result = "return") =>
             /\ yamllint_command'.id # yamllint_command.id
             /\ yamllint_command'.id = next_id
             /\ yamllint_command'.args =
                   option_args(merge_dicts(default_options, lint_options))
                   \o file_args(files)
             /\ yamllint_command'.env =
                   merge_env(merge_env(os_environ, config_env), lint_env)
           ]_vars
    /\ []( (last.op = "execute" /\ last.ran # 0) =>
             /\ last.ran = yamllint_command.id
             /\ last.ran = next_id - 1 )

C7_Witness ==
    /\ last.op = "execute" /\ last.ran = 2 /\ calls = 3
    /\ launched = <<2>>
    /\ baked_from = Inputs

\* C8: the file list is computed once, by the constructor, and never changes;
\* every baked command carries it, also after the project tree has changed.
C8_FileSetFixed ==
    /\ [][ files' = files /\ discoveries' = discoveries ]_vars
    /\ []( /\ discoveries = 1
           /\ yamllint_command # None =>
                 FileArgs(yamllint_command) = file_args(files) )

C8_Witness ==
    /\ yamllint_command # None
    /\ files # get_files(tree, verifier_directory)
    /\ FileArgs(yamllint_command) = file_args(files)
    /\ files # <<>>

\* C9: a call that has to resolve or start the executable while it cannot be
\* resolved or started makes no termination call and logs no success: it
\* ends in an exception of its own, from bake() as from execute().
C9_LaunchFailureDistinct ==
    [][ (calls' = calls + 1 /\ ~installed
         /\ (last'.op = "bake" \/ enabled)) =>
          /\ Count(last'.events, "sysexit") = 0
          /\ Count(last'.events, "success") = 0
          /\ last'.exit = -1
          /\ last'.result \in {"CommandNotFound", "ForkException"} ]_vars

C9_Witness ==
    /\ last.op = "execute" /\ last.result = "ForkException"
    /\ Count(last.events, "run") = 1

ExcludedNames(vdir) ==
    {".git", ".tox", ".vagrant", ".venv", vdir[Len(vdir)]}

UnderExcluded(p, vdir) ==
    \E k \in 1..Len(p.dir) : p.dir[k] \in ExcludedNames(vdir)

\* C10: no discovered file lies beneath a directory named '.git', '.tox',
\* '.vagrant', '.venv' or as the last component of the verifier's directory,
\* at any depth; a directory is excluded for its own name only, so the yaml
\* files beneath directories with other names are discovered.
C10_DiscoveryExclusion ==
    constructed =>
        /\ \A i \in 1..Len(files) : ~UnderExcluded(files[i], verifier_directory)
        /\ \A p \in tree :
              (p.name \in {a_yml, b_yaml}
               /\ ~UnderExcluded(p, verifier_directory)) =>
                  \E i \in 1..Len(files) : files[i] = p

C10_Witness ==
    /\ constructed
    /\ verifier_directory = <<"molecule", "default", "tests">>
    /\ tree = {[dir |-> <<"molecule", ".git">>, name |-> a_yml],
               [dir |-> <<"molecule">>, name |-> b_yaml]}
    /\ files = <<[dir |-> <<"molecule">>, name |-> b_yaml]>>

EndsWith(name, suffix) ==
    /\ Len(suffix) <= Len(name)
    /\ SubSeq(name, Len(name) - Len(suffix) + 1, Len(name)) = suffix

IsYml(p)  == EndsWith(p.name, <<".", "y", "m", "l">>)
IsYaml(p) == EndsWith(p.name, <<".", "y", "a", "m", "l">>)

\* C11: the file list holds exactly the files of the tree that end in .yml or
\* .yaml and lie beneath no excluded directory, each once, every .yml file
\* before every .yaml file; a project directory that does not exist gives an
\* empty list and construction completes.
C11_PatternUnion ==
    constructed =>
        /\ {files[i] : i \in 1..Len(files)} =
              {p \in tree : (IsYml(p) \/ IsYaml(p))
                            /\ ~UnderExcluded(p, verifier_directory)}
        /\ \A i, j \in 1..Len(files) : files[i] = files[j] => i = j
        /\ \A i, j \in 1..Len(files) :
              (IsYml(files[i]) /\ IsYaml(files[j])) => i < j
        /\ ~root_exists => files = <<>>

C11_Witness ==
    /\ constructed
    /\ tree = {[dir |-> <<"molecule">>, name |-> a_yml],
               [dir |-> <<>>, name |-> b_yaml]}
    /\ verifier_directory = <<"molecule", "default", "tests">>
    /\ files = <<[dir |-> <<"molecule">>, name |-> a_yml],
                 [dir |-> <<>>, name |-> b_yaml]>>

BakedStep == calls' = calls + 1 /\ next_id' # next_id

EnvNames(e) == {p[1] : p \in e}
EnvValue(e, n) == (CHOOSE p \in e : p[1] = n)[2]

\* the process environment with the orchestrator's and then the user's
\* entries laid over it, name by name
OverriddenEnv(environ, over, user) ==
    {<<n, IF n \in EnvNames(user) THEN EnvValue(user, n)
          ELSE IF n \in EnvNames(over) THEN EnvValue(over, n)
          ELSE EnvValue(environ, n)>> :
       n \in EnvNames(environ) \cup EnvNames(over) \cup EnvNames(user)}

\* C12: the environment of every baked command is the process environment
\* overridden name by name by the configured entries as they are at that
\* call, and no bake() or execute() call changes the process environment.
C12_EnvironmentImmutable ==
    [][ (calls' = calls + 1) =>
          /\ os_environ' = os_environ
          /\ BakedStep =>
                yamllint_command'.env =
                    OverriddenEnv(os_environ, config_env, lint_env) ]_vars

C12_Witness ==
    /\ yamllint_command.id = 2
    /\ <<"FOO", "bar">> \in yamllint_command.env
    /\ <<"FOO", "os">> \notin yamllint_command.env
    /\ <<"FOO", "os">> \in os_environ
    /\ baked_from.environ = os_environ

OptionSet(o) == {o[i] : i \in 1..Len(o)}
OptionArgs(cmd) == SelectSeq(cmd.args, LAMBDA a : a.kind # "file")

\* C13: the merged options are the user's entries plus s=true when the user
\* sets no 's', one entry per key; every baked command is built from them,
\* so the default s=true is there again whenever a later merge has no 's'.
C13_OptionMerge ==
    /\ []( /\ Keys(options) = {"s"} \cup Keys(lint_options)
           /\ Len(options) = Cardinality(Keys(options))
           /\ OptionSet(lint_options) \subseteq OptionSet(options)
           /\ "s" \notin Keys(lint_options) =>
                 Opt("s", "bool", "True") \in OptionSet(options) )
    /\ [][ BakedStep =>
             /\ OptionArgs(yamllint_command') = option_args(options)
             /\ ("s" \notin Keys(lint_options)) =
                   (Arg("flag", "s", "", NoFile)
                       \in OptionSet(yamllint_command'.args)) ]_vars

C13_Witness ==
    /\ yamllint_command.id = 2
    /\ baked_from.options =
          << Opt("s", "bool", "False"), Opt("config-file", "str", "x") >>
    /\ OptionArgs(yamllint_command) =
          << Arg("option", "config-file", "x", NoFile) >>

\* C14: a bake() call runs no process, makes no termination call, logs
\* nothing and changes nothing but the held command: the file list, the
\* configuration, the project tree and the process environment stay.
C14_BakeIsPure ==
    [][ BakeStep =>
          /\ launched' = launched
          /\ files' = files /\ discoveries' = discoveries
          /\ tree' = tree /\ verifier_directory' = verifier_directory
          /\ os_environ' = os_environ
          /\ enabled' = enabled /\ lint_options' = lint_options
          /\ lint_env' = lint_env /\ installed' = installed
          /\ \A i \in 1..Len(last'.events) : last'.events[i].ev = "bake"
          /\ last'.ran = 0 /\ last'.exit = -1 ]_vars

C14_Witness ==
    /\ last.op = "bake" /\ last.result = "return"
    /\ launched = <<1>>
    /\ yamllint_command.id = 2

\* C15: an execute() call made with enabled = false leaves what is held as
\* it is: None stays None, a held command stays the same command.
C15_DisabledKeepsState ==
    [][ (ExecuteStep /\ ~enabled) =>
          /\ yamllint_command' = yamllint_command
          /\ baked_from' = baked_from
          /\ next_id' = next_id ]_vars

C15_Witness ==
    /\ last.op = "execute" /\ ~last.enabled
    /\ yamllint_command = None
    /\ installed

\* C16: in every held command all option arguments come before all file
\* arguments, and the file arguments are the file list in its order.
C16_OptionsThenFiles ==
    yamllint_command # None =>
        LET args == yamllint_command.args IN
        /\ \A i, j \in 1..Len(args) :
              (i < j /\ args[i].kind = "file") => args[j].kind = "file"
        /\ FileArgs(yamllint_command) = file_args(files)

C16_Witness ==
    /\ yamllint_command # None
    /\ Len(files) = 2
    /\ Len(yamllint_command.args) = 3
    /\ yamllint_command.args[1].kind = "flag"
    /\ yamllint_command.args[3].file = files[2]

EventNames(evs) == [i \in 1..Len(evs) |-> evs[i].ev]

\* C17: an enabled execute() call runs the process at most once, and its
\* events come in this order: the implicit bake (when nothing was held), the
\* 'Executing' notice, the run, then the success notice or the termination
\* call.
C17_ExecuteOrder ==
    (last.op = "execute" /\ last.enabled) =>
        LET names == EventNames(last.events)
            b     == IF Count(last.events, "bake") = 1 THEN <<"bake">>
                     ELSE <<>>
        IN  /\ Count(last.events, "run") <= 1
            /\ Count(last.events, "bake") <= 1
            /\ IF last.result = "CommandNotFound" THEN names = <<"bake">>
               ELSE IF last.exit = 0
                    THEN names = b \o <<"info", "run", "success">>
               ELSE IF last.exit > 0
                    THEN names = b \o <<"info", "run", "sysexit">>
               ELSE names = b \o <<"info", "run">>

C17_Witness ==
    /\ last.op = "execute" /\ last.enabled
    /\ EventNames(last.events) = <<"bake", "info", "run", "sysexit">>

\* C18: nothing is held right after construction, and once a command is held
\* no bake() or execute() call, whatever its outcome, leaves None held.
C18_LifecycleMonotone ==
    /\ [](calls = 0 => yamllint_command = None)
    /\ [][ yamllint_command # None => yamllint_command' # None ]_vars

C18_Witness ==
    /\ calls = 3
    /\ last.op = "execute" /\ last.result = "SystemExit"
    /\ yamllint_command.id = 1

\* C19: an execute() call on a plugin that holds a command runs that command
\* as it was baked: it does not bake, and the arguments and environment are
\* those of the last bake() even when the options, the env overrides or the
\* process environment have changed since.
C19_NoRefresh ==
    /\ [][ (ExecuteStep /\ enabled /\ yamllint_command # None) =>
             /\ yamllint_command' = yamllint_command
             /\ baked_from' = baked_from
             /\ last'.ran = yamllint_command.id
             /\ Count(last'.events, "bake") = 0 ]_vars
    /\ []( yamllint_command # None =>
             /\ yamllint_command.args =
                   option_args(merge_dicts(default_options,
                                           baked_from.options))
                   \o file_args(baked_from.files)
             /\ yamllint_command.env =
                   OverriddenEnv(baked_from.environ, config_env,
                                 baked_from.env) )

C19_Witness ==
    /\ last.op = "execute" /\ last.enabled /\ last.exit >= 0
    /\ last.ran = yamllint_command.id
    /\ baked_from.options # lint_options
    /\ baked_from.env # lint_env
    /\ yamllint_command.args # baked.args
    /\ yamllint_command.env # env

====
